---- MODULE Spec2Model ----
(***************************************************************************)
(* Model of the progressive IMAP sync service: the in-memory session       *)
(* store (src/lib/sync-sessions.ts), the manual sync route and its         *)
(* background orchestrator processSync (pages/api/sync.ts, latest          *)
(* revision), the connection test route and processTest                    *)
(* (pages/api/test.ts), the polling route (pages/api/sync-status.ts) and   *)
(* the polling client (components/account-card.tsx).                       *)
(*                                                                         *)
(* Time is counted in whole hours.  One action is one run of JavaScript    *)
(* between two awaits that wait for real I/O: the event loop runs such a   *)
(* segment to its end before any other handler is scheduled.  The         *)
(* write-only timestamp completedAt of a session is left out.              *)
(***************************************************************************)
EXTENDS Integers, Sequences, FiniteSets, TLC

VARIABLES now, env, sessions, tasks, creds, syncHistory, ingestCalls,
          imapConnects, polling, resp, imap, call

vars == <<now, env, sessions, tasks, creds, syncHistory, ingestCalls,
          imapConnects, polling, resp, imap, call>>

(***************************************************************************)
(* Bounds of the model.                                                    *)
(***************************************************************************)
MaxSessions == 1
MaxSweepSessions == 2
NumSenders == 2
NumMessageIds == 2
MaxPerSender == 1
MaxTicks == 2

(***************************************************************************)
(* Program constants.                                                      *)
(***************************************************************************)
RATE_LIMIT_HOURS == 24
SESSION_MAX_AGE_HOURS == 1

Null == -1
None == "none"

APPROVED_SENDERS == 1..NumSenders
MessageIds == 1..NumMessageIds
Users == {"u1", "u2"}
CredIds == {"c1"}

RECURSIVE SeqsUpTo(_, _)
SeqsUpTo(S, n) ==
  IF n = 0 THEN {<<>>}
  ELSE LET shorter == SeqsUpTo(S, n - 1)
       IN  shorter \cup {Append(q, x) : q \in {r \in shorter : Len(r) = n - 1}, x \in S}

(***************************************************************************)
(* Session store: sync-sessions.ts.  sessions is the Map; its DOMAIN is    *)
(* the set of ids the Map holds.                                           *)
(***************************************************************************)
\* the mail domain that entry 'sender' of the allow list stands for
SenderString(sender) == "@vendor" \o ToString(sender) \o ".com"

\* The envelope of message m as the server reports it.  Message 1 comes from
\* the bare address tickets@vendor1.com; the later messages carry a display
\* name in front of the address.
Envelope(messageId) ==
  [name |-> IF messageId = 1 THEN "" ELSE "Vendor tickets",
   address |-> <<"tickets", SenderString(IF messageId <= NumSenders THEN messageId
                                         ELSE NumSenders)>>]

\* email.from as fetchTicketEmails builds it, as the sequence of its parts:
\* the address alone, or 'name <address>'
FromField(envelope) ==
  IF envelope.name # "" THEN <<envelope.name, "<">> \o envelope.address \o <<">">>
  ELSE envelope.address

\* isApprovedSender: the pattern is anchored at the end of the string, which
\* must end with the domain of an entry of the list
isApprovedSender(from) ==
  \E sender \in APPROVED_SENDERS :
    /\ Len(from) > 0
    /\ from[Len(from)] = SenderString(sender)

NewEmail(messageId) ==
  [messageId |-> messageId, from |-> FromField(Envelope(messageId)),
   ingestStatus |-> "pending", ingestError |-> None]

\* variant: the session is stored without its owner
createSessionUnowned(S, sessionId, userId, sendersTotal, t) ==
  [id \in DOMAIN S \cup {sessionId} |->
     IF id = sessionId
     THEN [userId |-> None, status |-> "fetching", emails |-> <<>>,
           totalFound |-> 0, totalIngested |-> 0, startedAt |-> t,
           completedAt |-> Null, error |-> None, currentSender |-> 0,
           sendersCompleted |-> <<>>, sendersTotal |-> sendersTotal,
           connectionState |-> None, connectionError |-> None]
     ELSE S[id]]

createSession(S, sessionId, userId, sendersTotal, t) ==
  [id \in DOMAIN S \cup {sessionId} |->
     IF id = sessionId
     THEN [userId |-> userId, status |-> "fetching", emails |-> <<>>,
           totalFound |-> 0, totalIngested |-> 0, startedAt |-> t,
           completedAt |-> Null, error |-> None, currentSender |-> 0,
           sendersCompleted |-> <<>>, sendersTotal |-> sendersTotal,
           connectionState |-> None, connectionError |-> None]
     ELSE S[id]]

hasSession(S, sessionId) == sessionId \in DOMAIN S

\* Object.assign(session, updates): updates is a record of the fields to set
updateSession(S, sessionId, updates) ==
  IF hasSession(S, sessionId)
  THEN [S EXCEPT ![sessionId] =
          [f \in DOMAIN S[sessionId] |->
             IF f \in DOMAIN updates THEN updates[f] ELSE S[sessionId][f]]]
  ELSE S

\* variant: one current sender kept for the whole store
updateCurrentSenderEverywhere(S, sessionId, sender) ==
  IF hasSession(S, sessionId)
  THEN [id \in DOMAIN S |-> [S[id] EXCEPT !.currentSender = sender]]
  ELSE S

updateCurrentSender(S, sessionId, sender) ==
  IF hasSession(S, sessionId)
  THEN [S EXCEPT ![sessionId].currentSender = sender]
  ELSE S

SeqIncludes(q, x) == \E k \in 1..Len(q) : q[k] = x

markSenderCompleted(S, sessionId, sender) ==
  IF hasSession(S, sessionId) /\ ~SeqIncludes(S[sessionId].sendersCompleted, sender)
  THEN [S EXCEPT ![sessionId].sendersCompleted = Append(@, sender)]
  ELSE S

updateConnectionState(S, sessionId, state, error) ==
  IF hasSession(S, sessionId)
  THEN [S EXCEPT ![sessionId].connectionState = state,
                 ![sessionId].connectionError = IF error # None THEN error ELSE @]
  ELSE S

\* variant: the push without the refresh of totalFound
addEmailToSessionStale(S, sessionId, email) ==
  IF hasSession(S, sessionId)
  THEN [S EXCEPT ![sessionId].emails = Append(@, email)]
  ELSE S

addEmailToSession(S, sessionId, email) ==
  IF hasSession(S, sessionId)
  THEN LET pushed == Append(S[sessionId].emails, email)
       IN  [S EXCEPT ![sessionId].emails = pushed,
                     ![sessionId].totalFound = Len(pushed)]
  ELSE S

\* emails.find((e) => e.messageId === messageId): index of the first match, 0 if none
FindEmail(emails, messageId) ==
  IF \E k \in 1..Len(emails) : emails[k].messageId = messageId
  THEN CHOOSE k \in 1..Len(emails) :
         /\ emails[k].messageId = messageId
         /\ \A j \in 1..(k - 1) : emails[j].messageId # messageId
  ELSE 0

\* variant: an email whose ingest failed is taken off the list
updateEmailStatusFailedRemoved(S, sessionId, messageId, status, error) ==
  IF hasSession(S, sessionId) /\ FindEmail(S[sessionId].emails, messageId) # 0
  THEN LET k == FindEmail(S[sessionId].emails, messageId)
           emails == S[sessionId].emails
       IN  IF status = "failed"
           THEN [S EXCEPT ![sessionId].emails =
                            SubSeq(emails, 1, k - 1) \o SubSeq(emails, k + 1, Len(emails))]
           ELSE [S EXCEPT ![sessionId].emails[k].ingestStatus = status,
                          ![sessionId].emails[k].ingestError = error,
                          ![sessionId].totalIngested =
                             IF status = "success" THEN @ + 1 ELSE @]
  ELSE S

updateEmailStatus(S, sessionId, messageId, status, error) ==
  IF hasSession(S, sessionId) /\ FindEmail(S[sessionId].emails, messageId) # 0
  THEN LET k == FindEmail(S[sessionId].emails, messageId)
       IN  [S EXCEPT ![sessionId].emails[k].ingestStatus = status,
                     ![sessionId].emails[k].ingestError = error,
                     ![sessionId].totalIngested =
                        IF status = "success" THEN @ + 1 ELSE @]
  ELSE S

\* variant: a session exactly one hour old is removed as well
cleanupSessionsInclusive(S, t) ==
  LET oneHourAgo == t - SESSION_MAX_AGE_HOURS
  IN  [id \in {x \in DOMAIN S : ~(S[x].startedAt <= oneHourAgo)} |-> S[id]]

cleanupSessions(S, t) ==
  LET oneHourAgo == t - SESSION_MAX_AGE_HOURS
  IN  [id \in {x \in DOMAIN S : ~(S[x].startedAt < oneHourAgo)} |-> S[id]]

RECURSIVE addEmails(_, _, _)
addEmails(S, sessionId, ids) ==
  IF ids = <<>> THEN S
  ELSE addEmails(addEmailToSession(S, sessionId, NewEmail(Head(ids))), sessionId, Tail(ids))

(***************************************************************************)
(* Initial states.  Init: a fresh deployment with ENCRYPTION_KEY set, an   *)
(* empty store and one stored credential of user u1 that was never synced. *)
(* HttpInit: any environment, and a credential that was never synced or    *)
(* was last synced manually 24 or 23 hours ago.                            *)
(***************************************************************************)
NoResponse ==
  [route |-> None, status |-> 0, dryRun |-> FALSE, sessionId |-> 0,
   rateLimitedUntil |-> Null]

\* the socket-level IMAP client (lib/imap-client.ts) before any call: entry is
\* the exported function that runs, pc the await its implementation waits at,
\* sent the tags written to the socket, unread the lines the server sent that
\* no read has consumed, response / got the server's answer to the last
\* command and the lines readUntilTag returned for it, outcome the way the
\* implementation ended, result what the caller's promise settled with
ImapIdle ==
  [entry |-> None, pc |-> "idle", timer |-> "none", sent |-> <<>>, unread |-> <<>>,
   response |-> <<>>, got |-> <<>>, sender |-> 0, toFetch |-> <<>>,
   outcome |-> None, result |-> None]

\* call: the last call of a library function made on its own, with its
\* arguments and what it returned
NoCall == [fn |-> None]

InitWith(envs, lasts) ==
  /\ imap = ImapIdle
  /\ call = NoCall
  /\ now = RATE_LIMIT_HOURS
  /\ env \in envs
  /\ sessions = [id \in {} |-> 0]
  /\ tasks = [id \in {} |-> 0]
  /\ \E last \in lasts :
       creds = [c \in CredIds |->
                  [userId |-> "u1", lastSyncAt |-> last, lastManualSyncAt |-> last]]
  /\ syncHistory = <<>>
  /\ ingestCalls = 0
  /\ imapConnects = {}
  /\ polling = {}
  /\ resp = NoResponse

Init == InitWith([IS_DEV : BOOLEAN, ENCRYPTION_KEY : {TRUE}], {Null})

HttpInit == InitWith([IS_DEV : BOOLEAN, ENCRYPTION_KEY : BOOLEAN], {Null, 0, 1})

Response(route, status, dryRun, sessionId, until) ==
  [route |-> route, status |-> status, dryRun |-> dryRun,
   sessionId |-> sessionId, rateLimitedUntil |-> until]

NewTask(kind, pc, credId) ==
  [kind |-> kind, pc |-> pc, cred |-> credId, sender |-> 0, i |-> 0, emails |-> <<>>,
   err |-> None, searchErrors |-> {}]

StartTask(sessionId, task) ==
  tasks' = [id \in DOMAIN tasks \cup {sessionId} |->
              IF id = sessionId THEN task ELSE tasks[id]]

\* the session id createSession hands out (ids are never reused)
NextSessionId == Cardinality(DOMAIN tasks) + 1

(***************************************************************************)
(* POST /api/sync (latest revision).                                       *)
(***************************************************************************)
RateLimited(cred, dryRun) ==
  /\ ~env.IS_DEV
  /\ ~dryRun
  /\ cred.lastManualSyncAt # Null
  /\ now - cred.lastManualSyncAt < RATE_LIMIT_HOURS

\* variant: the retry time counted from the request
RetryAfterFromNow(cred) == now + RATE_LIMIT_HOURS

RetryAfter(cred) == cred.lastManualSyncAt + RATE_LIMIT_HOURS

CredentialFound(user, credentialId) ==
  /\ credentialId \in CredIds
  /\ creds[credentialId].userId = user

\* variant: the route without the ownership check of the credential
SyncRejectionAnyOwner(user, credentialId, lookbackOk, dryRun) ==
  IF ~env.ENCRYPTION_KEY THEN 500
  ELSE IF user = None THEN 401
  ELSE IF credentialId = None THEN 400
  ELSE IF ~lookbackOk THEN 400
  ELSE IF RateLimited(creds[credentialId], dryRun) THEN 429
  ELSE 0

\* the early returns of the route, in the order of the code; 0 = none taken
SyncRejection(user, credentialId, lookbackOk, dryRun) ==
  IF ~env.ENCRYPTION_KEY THEN 500
  ELSE IF user = None THEN 401
  ELSE IF credentialId = None THEN 400
  ELSE IF ~lookbackOk THEN 400
  ELSE IF ~CredentialFound(user, credentialId) THEN 404
  ELSE IF RateLimited(creds[credentialId], dryRun) THEN 429
  ELSE 0

\* variant: a dry run that stamps the credential like a real sync
DryRunStamps(user, credentialId) ==
  /\ imapConnects' = imapConnects \cup {0}
  /\ creds' = [creds EXCEPT ![credentialId].lastSyncAt = now]
  /\ UNCHANGED <<sessions, tasks, syncHistory, ingestCalls>>

\* the dry-run branch: an IMAP connection of its own (recorded as 0), and
\* nothing else
DryRun(user, credentialId) ==
  /\ imapConnects' = imapConnects \cup {0}
  /\ UNCHANGED <<sessions, tasks, creds, syncHistory, ingestCalls>>

\* the whole handler: the early returns; the dry run (fetchTicketEmails
\* without progress callbacks, awaited by the route); the real sync (sweep,
\* create the session, start processSync, which runs up to the await of
\* decryptPassword, answer 202, on which the client starts polling)
PostSync(user, credentialId, lookbackOk, dryRun, fetchThrows, maxSessions) ==
  LET rejection == SyncRejection(user, credentialId, lookbackOk, dryRun) IN
  IF rejection # 0
  THEN /\ ~fetchThrows
       /\ resp' = Response("sync", rejection, dryRun, 0,
                           IF rejection = 429 THEN RetryAfter(creds[credentialId]) ELSE Null)
       /\ UNCHANGED <<call, imap, now, env, sessions, tasks, creds, syncHistory, ingestCalls,
                      imapConnects, polling>>
  ELSE IF dryRun
  THEN /\ DryRun(user, credentialId)
       /\ resp' = Response("sync", IF fetchThrows THEN 500 ELSE 200, TRUE, 0, Null)
       /\ UNCHANGED <<call, imap, now, env, polling>>
  ELSE /\ ~fetchThrows
       /\ NextSessionId <= maxSessions
       /\ sessions' = createSession(cleanupSessions(sessions, now), NextSessionId, user,
                                    Cardinality(APPROVED_SENDERS), now)
       /\ StartTask(NextSessionId, NewTask("sync", "decrypt", credentialId))
       /\ polling' = polling \cup {NextSessionId}
       /\ resp' = Response("sync", 202, FALSE, NextSessionId, Null)
       /\ UNCHANGED <<call, imap, now, env, creds, syncHistory, ingestCalls, imapConnects>>

(***************************************************************************)
(* POST /api/test: starts processTest, which is handed the plaintext       *)
(* password and therefore runs up to the await of client.connect().        *)
(***************************************************************************)
onConnectAttempt(S, sessionId) ==
  updateConnectionState(updateConnectionState(S, sessionId, "connecting", None),
                        sessionId, "authenticating", None)

PostTest(user, fieldsOk, maxSessions) ==
  IF user = None \/ ~fieldsOk
  THEN /\ resp' = Response("test", IF user = None THEN 401 ELSE 400, FALSE, 0, Null)
       /\ UNCHANGED <<call, imap, now, env, sessions, tasks, creds, syncHistory, ingestCalls,
                      imapConnects, polling>>
  ELSE /\ NextSessionId <= maxSessions
       /\ sessions' = onConnectAttempt(
                        createSession(cleanupSessions(sessions, now), NextSessionId,
                                      user, Cardinality(APPROVED_SENDERS), now),
                        NextSessionId)
       /\ StartTask(NextSessionId, NewTask("test", "connect", None))
       /\ imapConnects' = imapConnects \cup {NextSessionId}
       /\ polling' = polling \cup {NextSessionId}
       /\ resp' = Response("test", 202, FALSE, NextSessionId, Null)
       /\ UNCHANGED <<call, imap, now, env, creds, syncHistory, ingestCalls>>

(***************************************************************************)
(* The background task of one session: processSync / processTest around    *)
(* fetchTicketEmails (imapflow revision) with the progress callbacks.      *)
(***************************************************************************)
SetTask(sessionId, pc, sender, i, emails) ==
  tasks' = [tasks EXCEPT ![sessionId].pc = pc, ![sessionId].sender = sender,
                         ![sessionId].i = i, ![sessionId].emails = emails]

GoTo(sessionId, pc) ==
  tasks' = [tasks EXCEPT ![sessionId].pc = pc]

\* the update written by the catch block of processSync / processTest
CatchUpdate(msg) == [status |-> "failed", error |-> msg]

\* variant: a .catch handler that puts the session back to 'fetching'
AsyncCatchUpdateRetry(msg) == [status |-> "fetching", error |-> msg]

\* the update written by the .catch handler the route attached to the promise
AsyncCatchUpdate(msg) == [status |-> "failed", error |-> msg]

\* an exception reaches the catch block of processSync / processTest, which
\* rethrows; the rejected promise runs the .catch handler of the route
Throw(S, sessionId, msg) ==
  /\ sessions' = updateSession(updateSession(S, sessionId, CatchUpdate(msg)),
                               sessionId, AsyncCatchUpdate(msg))
  /\ tasks' = [tasks EXCEPT ![sessionId].pc = "failed", ![sessionId].err = msg]

\* variant: the catch block without the onConnectionError callback
ConnectionErrorUnreported(sessionId, msg) == Throw(sessions, sessionId, msg)

\* catch block of fetchTicketEmails (onConnectionError), then the caller's
ConnectionError(sessionId, msg) ==
  Throw(updateConnectionState(sessions, sessionId, "error", msg), sessionId, msg)

\* await decryptPassword(...) returns or throws (before the try of fetchTicketEmails)
Decrypt(sessionId) ==
  /\ tasks[sessionId].pc = "decrypt"
  /\ \/ /\ sessions' = onConnectAttempt(sessions, sessionId)
        /\ imapConnects' = imapConnects \cup {sessionId}
        /\ GoTo(sessionId, "connect")
     \/ /\ Throw(sessions, sessionId, "decrypt failed")
        /\ UNCHANGED imapConnects
  /\ UNCHANGED <<call, imap, now, env, creds, syncHistory, ingestCalls, polling, resp>>

\* await client.connect()
Connect(sessionId) ==
  /\ tasks[sessionId].pc = "connect"
  /\ \/ /\ sessions' = updateConnectionState(sessions, sessionId, "connected", None)
        /\ GoTo(sessionId, "lock")
     \/ ConnectionError(sessionId, "connect failed")
  /\ UNCHANGED <<call, imap, now, env, creds, syncHistory, ingestCalls, imapConnects, polling, resp>>

\* await client.getMailboxLock('INBOX'); then onSenderStart of the first sender
Lock(sessionId) ==
  /\ tasks[sessionId].pc = "lock"
  /\ \/ /\ sessions' = updateCurrentSender(sessions, sessionId, 1)
        /\ SetTask(sessionId, "search", 1, 0, <<>>)
     \/ ConnectionError(sessionId, "select failed")
  /\ UNCHANGED <<call, imap, now, env, creds, syncHistory, ingestCalls, imapConnects, polling, resp>>

\* variant: the emails are added and the sender is left unmarked
onSenderCompleteUnmarked(S, sessionId, sender, ids) ==
  addEmails(S, sessionId, ids)

onSenderComplete(S, sessionId, sender, ids) ==
  addEmails(markSenderCompleted(S, sessionId, sender), sessionId, ids)

\* The mailbox: message m has Message-ID m; IMAP SEARCH FROM is a substring
\* match, so one message can match the searches of several senders (its From
\* field contains 'livenation' and 'livenationsf', say).  Message m matches
\* the senders up to m.  A search returns, in ascending order, at most
\* MaxPerSender of the matching messages.
Matches(m, sender) == sender <= m

Ascending(q) == \A k \in 1..(Len(q) - 1) : q[k] < q[k + 1]

SearchResults ==
  [sender \in APPROVED_SENDERS |->
     {q \in SeqsUpTo(MessageIds, MaxPerSender) :
        Ascending(q) /\ \A k \in 1..Len(q) : Matches(q[k], sender)}]

\* the same for a mailbox that holds message 1 only
SmallMailbox ==
  [sender \in APPROVED_SENDERS |->
     {q \in SearchResults[sender] : \A k \in 1..Len(q) : q[k] = 1}]

\* a mailbox that holds two copies of message 1 (the same mail delivered
\* twice, both copies with the one Message-ID header): the search of the
\* first sender can return both
CopiesMailbox ==
  [sender \in APPROVED_SENDERS |->
     IF sender = 1 THEN {<<1, 1>>} \cup SearchResults[sender]
     ELSE SearchResults[sender]]

\* variant: a failed search that leaves the sender unmarked
onErrorUnmarked(S, sessionId, sender) == S

onError(S, sessionId, sender) == markSenderCompleted(S, sessionId, sender)

\* search and fetch of one sender return (found = the Message-IDs of the
\* fetched messages) or throw (the catch block logs the error: searchErrors);
\* then the next sender starts or the loop ends
SearchWith(sessionId, Results, throws, found) ==
  LET sender == tasks[sessionId].sender
      S1 == IF throws THEN onError(sessions, sessionId, sender)
            ELSE onSenderComplete(sessions, sessionId, sender, found)
      last == ~(sender < NumSenders)
  IN  /\ tasks[sessionId].pc = "search"
      /\ found \in Results[sender]
      /\ throws => found = <<>>
      /\ sessions' = IF last THEN S1 ELSE updateCurrentSender(S1, sessionId, sender + 1)
      /\ tasks' = [tasks EXCEPT
                     ![sessionId].pc = IF last THEN "logout" ELSE "search",
                     ![sessionId].sender = IF last THEN sender ELSE sender + 1,
                     ![sessionId].searchErrors =
                        IF throws THEN @ \cup {sender} ELSE @]
      /\ UNCHANGED <<call, imap, now, env, creds, syncHistory, ingestCalls, imapConnects,
                     polling, resp>>

Search(sessionId, Results) ==
  /\ tasks[sessionId].pc = "search"
  /\ \E throws \in BOOLEAN, found \in Results[tasks[sessionId].sender] :
       SearchWith(sessionId, Results, throws, found)

MessageIdsOf(emails) == [k \in 1..Len(emails) |-> emails[k].messageId]

\* start of one iteration of the ingest loop: 'sending', then the POST is issued
BeginIngest(S, sessionId, ids, i) ==
  /\ sessions' = updateEmailStatus(S, sessionId, ids[i], "sending", None)
  /\ ingestCalls' = ingestCalls + 1
  /\ SetTask(sessionId, "ingest", tasks[sessionId].sender, i, ids)

\* the status processSync sets when fetchTicketEmails has returned
AfterFetchStatus == "ingesting"

\* await client.logout() returns or throws; on return fetchTicketEmails returns
\* and the caller goes on up to its next await
Logout(sessionId) ==
  /\ tasks[sessionId].pc = "logout"
  /\ \/ /\ ConnectionError(sessionId, "logout failed")
        /\ UNCHANGED ingestCalls
     \/ /\ tasks[sessionId].kind = "test"
        /\ sessions' = updateSession(updateCurrentSender(sessions, sessionId, 0), sessionId,
                                     [status |-> "completed"])
        /\ GoTo(sessionId, "done")
        /\ UNCHANGED ingestCalls
     \/ /\ tasks[sessionId].kind = "sync"
        /\ LET S1 == updateSession(updateCurrentSender(sessions, sessionId, 0), sessionId,
                                   [status |-> AfterFetchStatus])
           IN  IF ~hasSession(S1, sessionId)
               THEN /\ Throw(S1, sessionId, "Session not found")
                    /\ UNCHANGED ingestCalls
               ELSE LET ids == MessageIdsOf(S1[sessionId].emails)
                    IN  IF Len(ids) = 0
                        THEN /\ sessions' = S1
                             /\ GoTo(sessionId, "persist")
                             /\ UNCHANGED ingestCalls
                        ELSE BeginIngest(S1, sessionId, ids, 1)
  /\ UNCHANGED <<call, imap, now, env, creds, syncHistory, imapConnects, polling, resp>>

\* what the ingest endpoint does with one POST
IngestOutcomes == {"ok", "ok, body not JSON", "not ok", "network error"}

\* the body of one iteration after the POST: response.ok and response.json()
\* returns; response.ok is false; fetch or response.json() throws
IngestResult(S, sessionId, messageId, outcome) ==
  IF outcome = "ok" THEN updateEmailStatus(S, sessionId, messageId, "success", None)
  ELSE IF outcome = "not ok"
       THEN updateEmailStatus(S, sessionId, messageId, "failed", "response body")
       ELSE updateEmailStatus(S, sessionId, messageId, "failed", "exception message")

\* await fetch(.../api/ingest) of email i settles; then the next iteration
\* starts or the loop ends
IngestWith(sessionId, outcome) ==
  LET t == tasks[sessionId] IN
  /\ t.pc = "ingest"
  /\ LET S1 == IngestResult(sessions, sessionId, t.emails[t.i], outcome)
     IN  IF t.i < Len(t.emails)
         THEN BeginIngest(S1, sessionId, t.emails, t.i + 1)
         ELSE /\ sessions' = S1
              /\ GoTo(sessionId, "persist")
              /\ UNCHANGED ingestCalls
  /\ UNCHANGED <<call, imap, now, env, creds, syncHistory, imapConnects, polling, resp>>

Ingest(sessionId) == \E outcome \in IngestOutcomes : IngestWith(sessionId, outcome)

HistoryRow(credId, session) ==
  [credentialId |-> credId,
   status |-> IF session.totalIngested = session.totalFound THEN "success" ELSE "partial",
   emailsFound |-> session.totalFound,
   emailsIngested |-> session.totalIngested]

\* the end of processSync: the two database writes (synchronous driver), the
\* lookup of the final session and the update to 'completed'
Persist(sessionId) ==
  LET t == tasks[sessionId] IN
  /\ t.pc = "persist"
  /\ \E updateThrows \in BOOLEAN, insertThrows \in BOOLEAN :
       IF updateThrows
       THEN /\ ~insertThrows
            /\ Throw(sessions, sessionId, "database error")
            /\ UNCHANGED <<creds, syncHistory>>
       ELSE /\ creds' = [creds EXCEPT ![t.cred].lastSyncAt = now,
                                      ![t.cred].lastManualSyncAt = now]
            /\ IF ~hasSession(sessions, sessionId)
               THEN /\ ~insertThrows
                    /\ Throw(sessions, sessionId, "TypeError")
                    /\ UNCHANGED syncHistory
               ELSE IF insertThrows
                    THEN /\ Throw(sessions, sessionId, "database error")
                         /\ UNCHANGED syncHistory
                    ELSE /\ syncHistory' = Append(syncHistory,
                                                  HistoryRow(t.cred, sessions[sessionId]))
                         /\ sessions' = updateSession(sessions, sessionId,
                                                      [status |-> "completed"])
                         /\ GoTo(sessionId, "done")
  /\ UNCHANGED <<call, imap, now, env, ingestCalls, imapConnects, polling, resp>>

(***************************************************************************)
(* The polling client of account-card.tsx with GET /api/sync-status: one   *)
(* tick of the interval, asked with the cookie of the session's owner.     *)
(***************************************************************************)
Terminal(status) == status \in {"completed", "failed"}

\* variant: the route without the ownership check
SyncStatusAnyCaller(sessionId, user) ==
  IF user = None THEN 401
  ELSE IF ~hasSession(sessions, sessionId) THEN 404
  ELSE 200

\* status code of GET /api/sync-status?sessionId=... for an authenticated user
SyncStatus(sessionId, user) ==
  IF user = None THEN 401
  ELSE IF ~hasSession(sessions, sessionId) THEN 404
  ELSE IF sessions[sessionId].userId # user THEN 403
  ELSE 200

Poll(sessionId) ==
  /\ sessionId \in polling
  /\ IF /\ hasSession(sessions, sessionId)
        /\ SyncStatus(sessionId, sessions[sessionId].userId) = 200
        /\ Terminal(sessions[sessionId].status)
     THEN polling' = polling \ {sessionId}
     ELSE UNCHANGED polling
  /\ UNCHANGED <<call, imap, now, env, sessions, tasks, creds, syncHistory, ingestCalls,
                 imapConnects, resp>>

\* the JSON body of the 200 answer
Snapshot(session) ==
  [status |-> session.status, emails |-> session.emails,
   totalFound |-> session.totalFound, totalIngested |-> session.totalIngested,
   error |-> session.error, currentSender |-> session.currentSender,
   sendersCompleted |-> session.sendersCompleted, sendersTotal |-> session.sendersTotal,
   connectionState |-> session.connectionState,
   connectionError |-> session.connectionError]

\* the JSON bodies of the other answers
ErrorBody(status) ==
  [error |-> IF status = 400 THEN "Missing sessionId"
             ELSE IF status = 404 THEN "Session not found"
             ELSE "Unauthorized"]

\* GET /api/sync-status by any caller (user = None: no valid cookie;
\* sessionId = 0: no sessionId parameter); the answer is kept with its caller
GetSyncStatus(user, sessionId) ==
  LET status == IF user # None /\ sessionId = 0 THEN 400
                ELSE SyncStatus(sessionId, user)
  IN  /\ resp' = [route |-> "sync-status", status |-> status, dryRun |-> FALSE,
                  sessionId |-> sessionId, rateLimitedUntil |-> Null,
                  caller |-> user,
                  body |-> IF status = 200 THEN Snapshot(sessions[sessionId])
                           ELSE ErrorBody(status)]
      /\ UNCHANGED <<call, imap, now, env, sessions, tasks, creds, syncHistory, ingestCalls,
                     imapConnects, polling>>

\* one hour passes
Tick ==
  /\ now < RATE_LIMIT_HOURS + MaxTicks
  /\ now' = now + 1
  /\ UNCHANGED <<call, imap, env, sessions, tasks, creds, syncHistory, ingestCalls,
                 imapConnects, polling, resp>>

(***************************************************************************)
(* The socket-level IMAP client of lib/imap-client.ts: one call of          *)
(* testConnection, fetchSampleEmails or fetchTicketEmails on one            *)
(* connection.  A line is the sequence of its words; a tag is one word.     *)
(* The parsed emails are left out: they do not steer the control flow.      *)
(***************************************************************************)
MaxFetched == 1

ENTRY_POINTS == {"testConnection", "fetchSampleEmails", "fetchTicketEmails"}

\* the entry points that race their implementation against a setTimeout
TimedEntries == {"testConnection", "fetchSampleEmails"}

TIMED_OUT == "Connection timed out after 5 minutes."

MessageNumbers == 1..MaxFetched

\* `F${messageId}`
FetchTag(messageId) == "F" \o ToString(messageId)

Ok(tag) == <<tag, "OK">>
No(tag) == <<tag, "NO">>

\* line.startsWith(tag)
StartsWith(line, tag) == Len(line) > 0 /\ line[1] = tag

\* line.includes(word)
Includes(line, word) == \E k \in 1..Len(line) : line[k] = word

\* index of the first line of the stream that starts with the tag, 0 if none
TagIndex(stream, tag) ==
  IF \E k \in 1..Len(stream) : StartsWith(stream[k], tag)
  THEN CHOOSE k \in 1..Len(stream) :
         /\ StartsWith(stream[k], tag)
         /\ \A j \in 1..(k - 1) : ~StartsWith(stream[j], tag)
  ELSE 0

\* variant: a reader that returns everything the server has sent
readUntilTagGreedy(stream, tag) == stream

\* ImapReader.readUntilTag: the lines up to and including the first one that
\* starts with the tag
readUntilTag(stream, tag) == SubSeq(stream, 1, TagIndex(stream, tag))

\* The server's possible answers to a command, each ending with the tagged
\* completion line.  A fetched body line is free text: it may begin with the
\* very characters of the tag.
LoginResponses(tag) == {<<Ok(tag)>>, <<No(tag)>>}

SelectResponses(tag) ==
  {<<<<"*", ToString(n), "EXISTS">>, Ok(tag)>> : n \in 0..MaxFetched}

SearchResponses(tag) ==
  {<<Ok(tag)>>} \cup
  {<<<<"*", "SEARCH">> \o [k \in 1..Len(ids) |-> ToString(ids[k])], Ok(tag)>> :
     ids \in {q \in SeqsUpTo(MessageNumbers, MaxFetched) : Ascending(q)}}

FetchResponses(tag) ==
  {<<<<"*", "FETCH", "BODY[HEADER">>, <<"From:", "x">>, <<"BODY[TEXT]">>, body,
     <<")">>, Ok(tag)>> : body \in {<<"text">>, <<tag, "text">>}}

\* the answer to the header FETCH of fetchSampleEmails: header fields only
HeaderResponses(tag) ==
  {<<<<"*", "FETCH", "BODY[HEADER">>, <<"From:", "x">>, <<")">>, Ok(tag)>>}

LogoutResponses(tag) == {<<<<"*", "BYE">>, Ok(tag)>>}

\* ids parsed from the '* SEARCH' line of the lines read, as message numbers
SearchIds(lines) ==
  IF \E k \in 1..Len(lines) : StartsWith(lines[k], "*") /\ Includes(lines[k], "SEARCH")
  THEN LET line == lines[CHOOSE k \in 1..Len(lines) :
                           StartsWith(lines[k], "*") /\ Includes(lines[k], "SEARCH")]
       IN  [k \in 1..(Len(line) - 2) |->
              CHOOSE m \in MessageNumbers : ToString(m) = line[k + 2]]
  ELSE <<>>

\* messageCount parsed from the '* n EXISTS' line of the lines read
MessageCount(lines) ==
  IF \E k \in 1..Len(lines) : Includes(lines[k], "EXISTS")
  THEN LET line == lines[CHOOSE k \in 1..Len(lines) : Includes(lines[k], "EXISTS")]
       IN  CHOOSE n \in 0..MaxFetched : ToString(n) = line[2]
  ELSE 0

\* writer.write(`${tag} ${command}\r\n`), then the implementation awaits the answer
Send(I, tag, pc) == [I EXCEPT !.sent = Append(@, tag), !.pc = pc]

\* the implementation returns or throws; the caller's promise settles with
\* that unless the timer has settled it already
Finish(I, outcome, value) ==
  [I EXCEPT !.pc = "done", !.outcome = outcome,
            !.result = IF @ = None THEN value ELSE @]

\* a failure inside the try block: the catch of fetchTicketEmails rethrows,
\* the other two return { success: false, error }
Fail(I, error) ==
  Finish(I, IF I.entry = "fetchTicketEmails" THEN "threw" ELSE "returned", error)

\* the sender loop of fetchTicketEmails moves on: the next SEARCH, or LOGOUT
NextSender(I) ==
  IF I.sender < NumSenders
  THEN Send([I EXCEPT !.sender = @ + 1], "A003", "search")
  ELSE Send(I, "A999", "logout")

ImapFrame ==
  UNCHANGED <<call, now, env, sessions, tasks, creds, syncHistory, ingestCalls,
              imapConnects, polling, resp>>

\* a call of one of the exported functions: the timer is set where there is
\* one, the socket is opened, the implementation awaits the greeting
ImapStart(entry) ==
  /\ imap.pc = "idle"
  /\ imap' = [ImapIdle EXCEPT !.entry = entry, !.pc = "greeting",
                              !.timer = IF entry \in TimedEntries THEN "armed" ELSE "none"]
  /\ ImapFrame

\* the greeting line arrives; LOGIN is sent
ImapGreeting(line) ==
  /\ imap.pc = "greeting"
  /\ imap' = IF imap.entry \in TimedEntries /\ ~(StartsWith(line, "*") /\ line[2] = "OK")
             THEN Finish(imap, "returned", "Unexpected server greeting")
             ELSE Send(imap, "A001", "login")
  /\ ImapFrame

ImapResponses(pc, tag) ==
  IF pc = "login" THEN LoginResponses(tag)
  ELSE IF pc = "select" THEN SelectResponses(tag)
  ELSE IF pc = "search" THEN SearchResponses(tag)
  ELSE IF pc = "fetch" THEN FetchResponses(tag)
  ELSE IF pc = "fetchAll" THEN HeaderResponses(tag)
  ELSE LogoutResponses(tag)

\* what the implementation does with the lines sendCommand returned
ImapContinue(I) ==
  LET loginOk == Includes(I.got[Len(I.got)], "OK") IN
  IF I.pc = "login"
  THEN IF ~loginOk
       THEN IF I.entry = "fetchTicketEmails" THEN Fail(I, "Login failed")
            ELSE Finish(I, "returned", "Invalid credentials")
       ELSE IF I.entry = "testConnection" THEN Send(I, "A002", "logout")
            ELSE Send(I, "A002", "select")
  ELSE IF I.pc = "select"
  THEN IF I.entry = "fetchTicketEmails"
       THEN Send([I EXCEPT !.sender = 1], "A003", "search")
       ELSE IF MessageCount(I.got) = 0 THEN Send(I, "A999", "logout")
            ELSE Send(I, "A003", "fetchAll")
  ELSE IF I.pc = "search"
  THEN LET ids == SearchIds(I.got)
       IN  IF ids = <<>> THEN NextSender(I)
           ELSE Send([I EXCEPT !.toFetch = ids], FetchTag(ids[1]), "fetch")
  ELSE IF I.pc = "fetch"
  THEN LET rest == Tail(I.toFetch)
       IN  IF rest = <<>> THEN NextSender([I EXCEPT !.toFetch = rest])
           ELSE Send([I EXCEPT !.toFetch = rest], FetchTag(rest[1]), "fetch")
  ELSE IF I.pc = "fetchAll" THEN Send(I, "A999", "logout")
  ELSE Finish(I, "returned", "success")

\* the server answers the pending command; readUntilTag returns, on the lines
\* still unread and the new ones; the implementation goes on to its next await
ImapRespond(lines) ==
  LET tag == imap.sent[Len(imap.sent)]
      stream == imap.unread \o lines
      got == readUntilTag(stream, tag)
  IN  /\ imap' = ImapContinue([imap EXCEPT !.response = lines, !.got = got,
                                           !.unread = SubSeq(stream, Len(got) + 1, Len(stream))])
      /\ ImapFrame

ImapWaiting == imap.pc \in {"login", "select", "search", "fetch", "fetchAll", "logout"}

\* the server closes the connection: the pending read throws 'Connection
\* closed' (inside fetchEmail it is caught and logged, and the next write or
\* read of the loop throws)
ImapClosed ==
  /\ imap.pc = "greeting" \/ ImapWaiting
  /\ imap' = Fail(imap, "Connection closed")
  /\ ImapFrame

\* the setTimeout callback of testConnection / fetchSampleEmails runs: the
\* race settles if the implementation has not settled it
ImapTimeout ==
  /\ imap.timer = "armed"
  /\ imap' = [imap EXCEPT !.timer = "fired",
                          !.result = IF @ = None THEN TIMED_OUT ELSE @]
  /\ ImapFrame

(***************************************************************************)
(* Library functions called on their own.  Times are in hours, as now is.  *)
(***************************************************************************)
MaxLookbackDays == 2
MaxLastSync == 2
DEFAULT_LOOKBACK_DAYS == 30
HOURS_PER_DAY == 24

LibFrame ==
  UNCHANGED <<imap, now, env, sessions, tasks, creds, syncHistory, ingestCalls,
              imapConnects, polling, resp>>

\* variant: the last sync time takes priority over the override
sinceDateLastSyncFirst(t, lookbackDays, lastSyncAt) ==
  IF lastSyncAt # Null THEN lastSyncAt
  ELSE IF lookbackDays # Null /\ lookbackDays # 0 THEN t - lookbackDays * HOURS_PER_DAY
  ELSE t - DEFAULT_LOOKBACK_DAYS * HOURS_PER_DAY

\* the since date of fetchTicketEmails at time t; Null stands for an absent
\* options.lookbackDays and for a null lastSyncAt.  The first test is the
\* truthiness of the number: 0 counts as absent.
sinceDate(t, lookbackDays, lastSyncAt) ==
  IF lookbackDays # Null /\ lookbackDays # 0 THEN t - lookbackDays * HOURS_PER_DAY
  ELSE IF lastSyncAt # Null THEN lastSyncAt
  ELSE t - DEFAULT_LOOKBACK_DAYS * HOURS_PER_DAY

LookbackInputs == {Null} \cup 0..MaxLookbackDays
LastSyncInputs == {Null} \cup 0..MaxLastSync

CallSinceDate(lookbackDays, lastSyncAt) ==
  /\ call = NoCall
  /\ call' = [fn |-> "sinceDate", t |-> now, lookbackDays |-> lookbackDays,
              lastSyncAt |-> lastSyncAt,
              result |-> sinceDate(now, lookbackDays, lastSyncAt)]
  /\ LibFrame

\* The messages a FETCH can deliver: any of the header fields may be missing
\* ("" or <<>>), and the library may deliver a message without an envelope.
MESSAGE_ID == "<m1@vendor1.com>"
SUBJECT == "Your tickets"

FetchedMessages ==
  [envelope : BOOLEAN, fromName : {"", "Vendor tickets"},
   fromAddress : {<<>>, <<"tickets", SenderString(1)>>},
   subject : {"", SUBJECT}, messageId : {"", MESSAGE_ID}, uid : MessageNumbers]

\* messageId of an email: the Message-ID header, or the fallback built from
\* the uid / sequence number
MessageIdOr(messageId, number) ==
  IF messageId # "" THEN messageId ELSE ToString(number) \o "@unknown"

\* the body of the fetch loop of fetchTicketEmails (imapflow revision): the
\* emails pushed for one fetched message
EnvelopeEmail(msg) ==
  IF ~msg.envelope THEN <<>>
  ELSE <<[messageId |-> MessageIdOr(msg.messageId, msg.uid),
          from |-> FromField([name |-> msg.fromName, address |-> msg.fromAddress]),
          subject |-> IF msg.subject # "" THEN msg.subject ELSE "(no subject)"]>>

\* fetchEmail of the socket client on the parsed headers, with the caller's
\* `if (email) emails.push(email)`: the emails pushed for one fetched message
fetchEmail(msg) ==
  IF msg.fromAddress = <<>> \/ msg.subject = "" THEN <<>>
  ELSE <<[messageId |-> MessageIdOr(msg.messageId, msg.uid),
          from |-> FromField([name |-> msg.fromName, address |-> msg.fromAddress]),
          subject |-> msg.subject]>>

CallEnvelopeEmail(msg) ==
  /\ call = NoCall
  /\ call' = [fn |-> "EnvelopeEmail", msg |-> msg, result |-> EnvelopeEmail(msg)]
  /\ LibFrame

CallFetchEmail(msg) ==
  /\ call = NoCall
  /\ msg.envelope
  /\ call' = [fn |-> "fetchEmail", msg |-> msg, result |-> fetchEmail(msg)]
  /\ LibFrame

(***************************************************************************)
(* The three revisions of isApprovedSender on strings, a string being the  *)
(* sequence of its characters.  The lists are cut down to one vendor,      *)
(* written tm.co.                                                          *)
(***************************************************************************)
LowerCase == <<"x", "t", "m", "c", "o", "n">>
UpperCase == <<"X", "T", "M", "C", "O", "N">>
Letters == {LowerCase[k] : k \in DOMAIN LowerCase}
DomainChars == Letters \cup {".", "-"}

LowerChar(c) ==
  IF \E k \in DOMAIN UpperCase : UpperCase[k] = c
  THEN LowerCase[CHOOSE k \in DOMAIN UpperCase : UpperCase[k] = c]
  ELSE c

UpperChar(c) ==
  IF \E k \in DOMAIN LowerCase : LowerCase[k] = c
  THEN UpperCase[CHOOSE k \in DOMAIN LowerCase : LowerCase[k] = c]
  ELSE c

toLowerCase(s) == [k \in DOMAIN s |-> LowerChar(s[k])]

endsWith(s, suffix) ==
  /\ Len(suffix) <= Len(s)
  /\ SubSeq(s, Len(s) - Len(suffix) + 1, Len(s)) = suffix

AllIn(s, from, to, chars) == \A k \in from..to : s[k] \in chars

\* approved-senders.ts: entries are '@domain' suffixes
SUFFIX_SENDERS == {<<"@", "t", "m", ".", "c", "o">>}

isApprovedSenderSuffix(email) ==
  LET lowerEmail == toLowerCase(email)
  IN  \E sender \in SUFFIX_SENDERS : endsWith(lowerEmail, sender)

\* the brand-name revision: entries are brand names, matched by
\* @[a-z0-9.-]*<brand>[a-z0-9.-]*\.[a-z]{2,}$
BRAND_SENDERS == {<<"t", "m">>}

isApprovedSenderBrand(email) ==
  LET lowerEmail == toLowerCase(email)
      n == Len(lowerEmail)
  IN  \E sender \in BRAND_SENDERS :
        \E at \in 1..n, j \in 1..n, dot \in 1..n :
          /\ lowerEmail[at] = "@"
          /\ at < j
          /\ AllIn(lowerEmail, at + 1, j - 1, DomainChars)
          /\ j + Len(sender) - 1 <= n
          /\ SubSeq(lowerEmail, j, j + Len(sender) - 1) = sender
          /\ dot >= j + Len(sender)
          /\ AllIn(lowerEmail, j + Len(sender), dot - 1, DomainChars)
          /\ lowerEmail[dot] = "."
          /\ n - dot >= 2
          /\ AllIn(lowerEmail, dot + 1, n, Letters)

\* the exact-address revision: entries are whole addresses; the address is
\* taken from between '<' and '>' when senderString.match(/<([^>]+)>/) matches
EXACT_SENDERS == {<<"x", "@", "t", "m", ".", "c", "o">>}

AngleMatch(s, i, j) ==
  /\ s[i] = "<"
  /\ s[j] = ">"
  /\ j >= i + 2
  /\ \A k \in (i + 1)..(j - 1) : s[k] # ">"

ExtractEmail(senderString) ==
  LET n == Len(senderString)
      starts == {i \in 1..n : \E j \in 1..n : AngleMatch(senderString, i, j)}
  IN  IF starts = {} THEN senderString
      ELSE LET i == CHOOSE x \in starts : \A y \in starts : x <= y
               j == CHOOSE x \in 1..n : AngleMatch(senderString, i, x)
           IN  SubSeq(senderString, i + 1, j - 1)

isApprovedSenderExact(senderString) ==
  LET lowerEmail == toLowerCase(ExtractEmail(senderString))
  IN  \E approved \in EXACT_SENDERS : lowerEmail = toLowerCase(approved)

POLICIES == {"exact", "suffix", "brand"}

isApprovedSenderBy(policy, s) ==
  IF policy = "exact" THEN isApprovedSenderExact(s)
  ELSE IF policy = "suffix" THEN isApprovedSenderSuffix(s)
  ELSE isApprovedSenderBrand(s)

\* the addresses tried: the vendor's, one at a subdomain of the vendor's
\* domain, one at a different domain whose name ends like the vendor's, and
\* an unrelated one
VENDOR == <<"x", "@", "t", "m", ".", "c", "o">>
SUBDOMAIN == <<"x", "@", "m", ".", "t", "m", ".", "c", "o">>
LOOKALIKE == <<"x", "@", "n", "o", "t", "t", "m", ".", "c", "o">>
OTHER_DOMAIN == <<"x", "@", "o", ".", "c", "o">>
Addresses == {VENDOR, SUBDOMAIN, LOOKALIKE, OTHER_DOMAIN}

\* a with the letters at the positions of U changed to upper case
Capitalised(a, U) == [k \in DOMAIN a |-> IF k \in U THEN UpperChar(a[k]) ELSE a[k]]

DisplayNames == {<<>>, <<"T", "m">>}

\* 'name <address>', or the address alone for the empty name
Named(name, address) ==
  IF name = <<>> THEN address ELSE name \o <<" ", "<">> \o address \o <<">">>

CallIsApprovedSender(policy, base, U, name) ==
  LET address == Capitalised(base, U)
      given == Named(name, address)
  IN  /\ call = NoCall
      /\ call' = [fn |-> "isApprovedSender", policy |-> policy, base |-> base,
                  address |-> address, name |-> name, given |-> given,
                  result |-> isApprovedSenderBy(policy, given)]
      /\ LibFrame

\* The per-sender cap of fetchTicketEmails: resultArray.slice(0, 10).  A
\* search result is the ascending list of the numbers of the matching messages.
FETCH_LIMIT == 10
MaxResults == 12

\* variant: every message found is fetched
uidsToFetchAll(resultArray) == resultArray

uidsToFetch(resultArray) ==
  SubSeq(resultArray, 1, IF Len(resultArray) < FETCH_LIMIT THEN Len(resultArray)
                         ELSE FETCH_LIMIT)

CallUidsToFetch(n) ==
  LET resultArray == [k \in 1..n |-> k]
  IN  /\ call = NoCall
      /\ call' = [fn |-> "uidsToFetch", resultArray |-> resultArray,
                  result |-> uidsToFetch(resultArray)]
      /\ LibFrame

(***************************************************************************)
(* The sender loop of fetchTicketEmails as a function of the server's      *)
(* behaviour.  For each sender the behaviour gives the messages the fetch  *)
(* loop delivered (fetched: their Message-IDs, in order) and whether the   *)
(* search, the fetch or simpleParser threw after them (threw).  Every      *)
(* fetched message is pushed to emails, the array the function returns,    *)
(* and to senderEmails; onSenderComplete(sender, senderEmails) is the last *)
(* statement of the try block and is skipped by a throw.  delivered is the *)
(* list the callbacks of processSync build in the session.                 *)
(***************************************************************************)
Behaviours ==
  [APPROVED_SENDERS -> [fetched : SeqsUpTo(MessageIds, MaxPerSender), threw : BOOLEAN]]

fetchSender(state, fetched, threw) ==
  [emails |-> state.emails \o fetched,
   delivered |-> IF threw THEN state.delivered ELSE state.delivered \o fetched]

RECURSIVE senderLoop(_, _, _)
senderLoop(state, behaviour, sender) ==
  IF sender > NumSenders THEN state
  ELSE senderLoop(fetchSender(state, behaviour[sender].fetched, behaviour[sender].threw),
                  behaviour, sender + 1)

CallFetchTicketEmails(behaviour) ==
  LET state == senderLoop([emails |-> <<>>, delivered |-> <<>>], behaviour, 1) IN
  /\ call = NoCall
  /\ \A sender \in APPROVED_SENDERS :
       /\ Ascending(behaviour[sender].fetched)
       /\ \A k \in 1..Len(behaviour[sender].fetched) :
            Matches(behaviour[sender].fetched[k], sender)
  /\ call' = [fn |-> "fetchTicketEmails", behaviour |-> behaviour,
              result |-> state.emails, delivered |-> state.delivered]
  /\ LibFrame

(***************************************************************************)
(* The scheduled sync (scripts/cron.ts): one iteration of runSync's loop   *)
(* over the auto_daily accounts, for the account credentialId.  It holds   *)
(* no session; its awaits touch nothing that a request reads except the    *)
(* two database writes, taken here in one step.                            *)
(***************************************************************************)
MaxCronRuns == 1

CronRow(credentialId, status, found, ingested) ==
  [credentialId |-> credentialId, status |-> status,
   emailsFound |-> found, emailsIngested |-> ingested]

\* variant: the scheduled sync stamps the manual sync time as well
runSyncStamps(credentialId, threw, found, ingested) ==
  /\ env.ENCRYPTION_KEY
  /\ Len(syncHistory) < MaxCronRuns
  /\ ingested <= found
  /\ IF threw
     THEN /\ found = 0
          /\ syncHistory' = Append(syncHistory, CronRow(credentialId, "error", 0, 0))
          /\ UNCHANGED creds
     ELSE /\ creds' = [c \in DOMAIN creds |->
                         IF creds[c].userId = creds[credentialId].userId
                         THEN [creds[c] EXCEPT !.lastSyncAt = now, !.lastManualSyncAt = now]
                         ELSE creds[c]]
          /\ syncHistory' = Append(syncHistory,
                                   CronRow(credentialId,
                                           IF ingested = found THEN "success" ELSE "partial",
                                           found, ingested))
  /\ UNCHANGED <<call, imap, now, env, sessions, tasks, ingestCalls, imapConnects,
                 polling, resp>>

runSync(credentialId, threw, found, ingested) ==
  /\ env.ENCRYPTION_KEY
  /\ Len(syncHistory) < MaxCronRuns
  /\ ingested <= found
  /\ IF threw
     THEN /\ found = 0
          /\ syncHistory' = Append(syncHistory, CronRow(credentialId, "error", 0, 0))
          /\ UNCHANGED creds
     ELSE /\ creds' = [c \in DOMAIN creds |->
                         IF creds[c].userId = creds[credentialId].userId
                         THEN [creds[c] EXCEPT !.lastSyncAt = now]
                         ELSE creds[c]]
          /\ syncHistory' = Append(syncHistory,
                                   CronRow(credentialId,
                                           IF ingested = found THEN "success" ELSE "partial",
                                           found, ingested))
  /\ UNCHANGED <<call, imap, now, env, sessions, tasks, ingestCalls, imapConnects,
                 polling, resp>>

(***************************************************************************)
(* POST /api/setup (pages/api/setup.ts).  The table imap_credentials is    *)
(* creds, keyed by the row's id (here a number; crypto.randomUUID() gives  *)
(* a fresh one); an email address is a number as well.  A request is a     *)
(* task: its handler runs from one database call to the next, and the      *)
(* calls of concurrent requests reach the database in any order.           *)
(***************************************************************************)
MAX_ACCOUNTS == 5
MaxSetupRequests == 2

SetupFrame ==
  UNCHANGED <<call, imap, now, env, sessions, syncHistory, ingestCalls, imapConnects,
              polling, resp>>

AccountsOf(user) == {id \in DOMAIN creds : creds[id].userId = user}

\* the user has connected n accounts one after the other
SetupInit ==
  /\ imap = ImapIdle
  /\ call = NoCall
  /\ now = RATE_LIMIT_HOURS
  /\ env = [IS_DEV |-> TRUE, ENCRYPTION_KEY |-> TRUE]
  /\ sessions = [id \in {} |-> 0]
  /\ tasks = [id \in {} |-> 0]
  /\ \E n \in 0..MAX_ACCOUNTS :
       creds = [id \in 1..n |->
                  [userId |-> "u1", imapEmail |-> id, lastSyncAt |-> Null,
                   lastManualSyncAt |-> Null]]
  /\ syncHistory = <<>>
  /\ ingestCalls = 0
  /\ imapConnects = {}
  /\ polling = {}
  /\ resp = NoResponse

SetupAnswer(request, status) ==
  tasks' = [tasks EXCEPT ![request].pc = "done", ![request].status = status]

\* the request arrives: verifySession, request.json(), the field check, and
\* the first database call is issued (credentialId = 0: none given)
PostSetup(user, fieldsOk, email, credentialId) ==
  /\ NextSessionId <= MaxSetupRequests
  /\ StartTask(NextSessionId,
               [kind |-> "setup", user |-> user, email |-> email,
                credentialId |-> credentialId,
                pc |-> IF user = None \/ ~fieldsOk THEN "done"
                       ELSE IF credentialId # 0 THEN "update" ELSE "count",
                status |-> IF user = None THEN 401 ELSE IF ~fieldsOk THEN 400 ELSE 0])
  /\ UNCHANGED creds
  /\ SetupFrame

\* db.update(imapCredentials) ... where id = credentialId and userId = user.id
SetupUpdate(request) ==
  LET t == tasks[request] IN
  /\ t.pc = "update"
  /\ IF t.credentialId \in AccountsOf(t.user)
     THEN /\ creds' = [creds EXCEPT ![t.credentialId].imapEmail = t.email]
          /\ SetupAnswer(request, 200)
     ELSE /\ UNCHANGED creds
          /\ SetupAnswer(request, 404)
  /\ SetupFrame

\* select count(*) where userId = user.id, and the check of the limit
SetupCount(request) ==
  LET t == tasks[request]
      currentCount == Cardinality(AccountsOf(t.user))
  IN  /\ t.pc = "count"
      /\ IF currentCount >= MAX_ACCOUNTS
         THEN SetupAnswer(request, 400)
         ELSE tasks' = [tasks EXCEPT ![request].pc = "existing"]
      /\ UNCHANGED creds
      /\ SetupFrame

\* the select of a row with the same userId and imapEmail
SetupExisting(request) ==
  LET t == tasks[request]
      existing == {id \in AccountsOf(t.user) : creds[id].imapEmail = t.email}
  IN  /\ t.pc = "existing"
      /\ IF existing # {}
         THEN SetupAnswer(request, 400)
         ELSE tasks' = [tasks EXCEPT ![request].pc = "insert"]
      /\ UNCHANGED creds
      /\ SetupFrame

\* db.insert(imapCredentials), then the 200 answer
SetupInsert(request) ==
  LET t == tasks[request]
      newId == Cardinality(DOMAIN creds) + 1
  IN  /\ t.pc = "insert"
      /\ creds' = [id \in DOMAIN creds \cup {newId} |->
                     IF id = newId
                     THEN [userId |-> t.user, imapEmail |-> t.email, lastSyncAt |-> Null,
                           lastManualSyncAt |-> Null]
                     ELSE creds[id]]
      /\ SetupAnswer(request, 200)
      /\ SetupFrame

(***************************************************************************)
(* Specifications.                                                         *)
(*  Spec: real syncs and connection tests requested by signed-in users     *)
(*  with well-formed bodies, the background tasks, the pollers, the clock. *)
(*  FairSpec: the same with MaxSweepSessions sessions of user u1, so that   *)
(*  a sweep meets a session of an earlier request, on a small mailbox.     *)
(*  HttpSpec: every kind of request to POST /api/sync, on a small mailbox. *)
(***************************************************************************)
StartSync(users, maxSessions) ==
  \E user \in users : PostSync(user, "c1", TRUE, FALSE, FALSE, maxSessions)

StartTest(users, maxSessions) ==
  \E user \in users : PostTest(user, TRUE, maxSessions)

Next ==
  \/ StartSync(Users, MaxSessions)
  \/ StartTest(Users, MaxSessions)
  \/ \E sessionId \in DOMAIN tasks : Decrypt(sessionId)
  \/ \E sessionId \in DOMAIN tasks : Connect(sessionId)
  \/ \E sessionId \in DOMAIN tasks : Lock(sessionId)
  \/ \E sessionId \in DOMAIN tasks : Search(sessionId, SearchResults)
  \/ \E sessionId \in DOMAIN tasks : Logout(sessionId)
  \/ \E sessionId \in DOMAIN tasks : Ingest(sessionId)
  \/ \E sessionId \in DOMAIN tasks : Persist(sessionId)
  \/ \E sessionId \in DOMAIN tasks : Poll(sessionId)
  \/ Tick

Spec == Init /\ [][Next]_vars

SweepNext ==
  \/ StartSync({"u1"}, MaxSweepSessions)
  \/ StartTest({"u1"}, MaxSweepSessions)
  \/ \E sessionId \in DOMAIN tasks : Decrypt(sessionId)
  \/ \E sessionId \in DOMAIN tasks : Connect(sessionId)
  \/ \E sessionId \in DOMAIN tasks : Lock(sessionId)
  \/ \E sessionId \in DOMAIN tasks : Search(sessionId, SmallMailbox)
  \/ \E sessionId \in DOMAIN tasks : Logout(sessionId)
  \/ \E sessionId \in DOMAIN tasks : Ingest(sessionId)
  \/ \E sessionId \in DOMAIN tasks : Persist(sessionId)
  \/ \E sessionId \in DOMAIN tasks : Poll(sessionId)
  \/ Tick

TaskStep(sessionId) ==
  \/ Decrypt(sessionId)
  \/ Connect(sessionId)
  \/ Lock(sessionId)
  \/ Search(sessionId, SmallMailbox)
  \/ Logout(sessionId)
  \/ Ingest(sessionId)
  \/ Persist(sessionId)

\* every pending I/O call of a background task eventually returns or throws,
\* and the interval timer of a polling client keeps firing
FairSpec ==
  /\ Init
  /\ [][SweepNext]_vars
  /\ \A sessionId \in 1..MaxSweepSessions :
       /\ WF_vars(sessionId \in DOMAIN tasks /\ TaskStep(sessionId))
       /\ WF_vars(sessionId \in DOMAIN tasks /\ Poll(sessionId))

HttpNext ==
  \/ \E user \in Users \cup {None}, credentialId \in CredIds \cup {None},
        lookbackOk \in BOOLEAN, dryRun \in BOOLEAN, fetchThrows \in BOOLEAN :
          PostSync(user, credentialId, lookbackOk, dryRun, fetchThrows, MaxSessions)
  \/ \E sessionId \in DOMAIN tasks : Decrypt(sessionId)
  \/ \E sessionId \in DOMAIN tasks : Connect(sessionId)
  \/ \E sessionId \in DOMAIN tasks : Lock(sessionId)
  \/ \E sessionId \in DOMAIN tasks : Search(sessionId, SmallMailbox)
  \/ \E sessionId \in DOMAIN tasks : Logout(sessionId)
  \/ \E sessionId \in DOMAIN tasks : Ingest(sessionId)
  \/ \E sessionId \in DOMAIN tasks : Persist(sessionId)
  \/ Tick

HttpSpec == HttpInit /\ [][HttpNext]_vars

\* StatusSpec: real syncs of both users on a small mailbox, and status
\* requests of every caller for every session id
StatusNext ==
  \/ StartSync(Users, MaxSessions)
  \/ \E sessionId \in DOMAIN tasks : Decrypt(sessionId)
  \/ \E sessionId \in DOMAIN tasks : Connect(sessionId)
  \/ \E sessionId \in DOMAIN tasks : Lock(sessionId)
  \/ \E sessionId \in DOMAIN tasks : Search(sessionId, SmallMailbox)
  \/ \E sessionId \in DOMAIN tasks : Logout(sessionId)
  \/ \E sessionId \in DOMAIN tasks : Ingest(sessionId)
  \/ \E sessionId \in DOMAIN tasks : Persist(sessionId)
  \/ \E user \in Users \cup {None}, sessionId \in 0..MaxSessions :
        GetSyncStatus(user, sessionId)

StatusSpec == Init /\ [][StatusNext]_vars

\* ImapSpec: one call of the socket-level client against a server that may
\* answer, stay silent or close the connection; timers that are set fire
ImapNext ==
  \/ \E entry \in ENTRY_POINTS : ImapStart(entry)
  \/ \E line \in {<<"*", "OK">>, <<"*", "BYE">>} : ImapGreeting(line)
  \/ /\ ImapWaiting
     /\ \E lines \in ImapResponses(imap.pc, imap.sent[Len(imap.sent)]) : ImapRespond(lines)
  \/ ImapClosed
  \/ ImapTimeout

ImapSpec == Init /\ [][ImapNext]_vars /\ WF_vars(ImapTimeout)

CronNext ==
  \/ HttpNext
  \/ \E credentialId \in CredIds, threw \in BOOLEAN, found \in 0..MaxPerSender,
        ingested \in 0..MaxPerSender : runSync(credentialId, threw, found, ingested)

CronSpec == HttpInit /\ [][CronNext]_vars

SetupNext ==
  \/ \E user \in Users \cup {None}, fieldsOk \in BOOLEAN,
        email \in {1, MAX_ACCOUNTS + 1, MAX_ACCOUNTS + 2}, credentialId \in 0..1 :
          PostSetup(user, fieldsOk, email, credentialId)
  \/ \E request \in DOMAIN tasks : SetupUpdate(request)
  \/ \E request \in DOMAIN tasks : SetupCount(request)
  \/ \E request \in DOMAIN tasks : SetupExisting(request)
  \/ \E request \in DOMAIN tasks : SetupInsert(request)

SetupSpec == SetupInit /\ [][SetupNext]_vars

CopiesNext ==
  \/ StartSync({"u1"}, MaxSessions)
  \/ \E sessionId \in DOMAIN tasks : Decrypt(sessionId)
  \/ \E sessionId \in DOMAIN tasks : Connect(sessionId)
  \/ \E sessionId \in DOMAIN tasks : Lock(sessionId)
  \/ \E sessionId \in DOMAIN tasks : Search(sessionId, CopiesMailbox)
  \/ \E sessionId \in DOMAIN tasks : Logout(sessionId)
  \/ \E sessionId \in DOMAIN tasks : Ingest(sessionId)
  \/ \E sessionId \in DOMAIN tasks : Persist(sessionId)

CopiesSpec == Init /\ [][CopiesNext]_vars

\* the caller is done with the value returned
Return ==
  /\ call # NoCall
  /\ call' = NoCall
  /\ LibFrame

LibNext ==
  \/ Return
  \/ \E n \in 0..MaxResults : CallUidsToFetch(n)
  \/ \E lookbackDays \in LookbackInputs, lastSyncAt \in LastSyncInputs :
       CallSinceDate(lookbackDays, lastSyncAt)
  \/ \E msg \in FetchedMessages : CallEnvelopeEmail(msg)
  \/ \E policy \in POLICIES, base \in Addresses, name \in DisplayNames :
       \E U \in SUBSET DOMAIN base : CallIsApprovedSender(policy, base, U, name)
  \/ \E msg \in FetchedMessages : CallFetchEmail(msg)
  \/ \E behaviour \in Behaviours : CallFetchTicketEmails(behaviour)

LibSpec == Init /\ [][LibNext]_vars

(***************************************************************************)
(* Properties.                                                             *)
(***************************************************************************)
SyncSessions == {sessionId \in DOMAIN sessions : tasks[sessionId].kind = "sync"}

SuccessCount(session) ==
  Cardinality({k \in 1..Len(session.emails) : session.emails[k].ingestStatus = "success"})

\* C1: in every reachable state of the store, each session's totalFound
\* equals the length of its emails list.
C1_TotalFoundIsLength ==
  \A sessionId \in DOMAIN sessions :
    sessions[sessionId].totalFound = Len(sessions[sessionId].emails)

\* a session that holds two emails
C1_Witness ==
  \E sessionId \in DOMAIN sessions :
    /\ Len(sessions[sessionId].emails) = 2
    /\ sessions[sessionId].totalFound = 2

\* C2: each session's totalIngested equals the number of its emails whose
\* ingestStatus is 'success'.
C2_TotalIngestedIsSuccessCount ==
  \A sessionId \in DOMAIN sessions :
    sessions[sessionId].totalIngested = SuccessCount(sessions[sessionId])

StatusRank(status) ==
  IF status = "fetching" THEN 0 ELSE IF status = "ingesting" THEN 1 ELSE 2

\* C3: the status of a session only moves forward along
\* fetching -> ingesting -> completed/failed, and a terminal status is never
\* replaced by a different value.
C3_StatusOnlyForward ==
  [][\A sessionId \in DOMAIN sessions \cap DOMAIN sessions' :
       /\ StatusRank(sessions'[sessionId].status) >= StatusRank(sessions[sessionId].status)
       /\ Terminal(sessions[sessionId].status)
            => sessions'[sessionId].status = sessions[sessionId].status]_vars

\* a sync session that failed in the ingest phase, after both catch handlers ran
C3_Witness ==
  \E sessionId \in SyncSessions :
    /\ sessions[sessionId].status = "failed"
    /\ tasks[sessionId].pc = "failed"
    /\ tasks[sessionId].err = "database error"
    /\ Len(sessions[sessionId].emails) > 0

\* what the claim promises for the email of one iteration, by the outcome of
\* its POST: the status and diagnostic it ends with, the growth of totalIngested
PromisedStatus(outcome) ==
  IF outcome \in {"ok", "ok, body not JSON"} THEN "success" ELSE "failed"

PromisedError(outcome) ==
  IF outcome = "not ok" THEN "response body"
  ELSE IF outcome = "network error" THEN "exception message"
  ELSE None

\* C4: in the ingest loop, an email whose POST is answered 2xx ends 'success'
\* and totalIngested grows by exactly one; an email whose POST is answered
\* non-2xx or throws ends 'failed' with ingestError set to the response body or
\* the exception message.
C4_IngestOutcomeRecorded ==
  [][\A sessionId \in DOMAIN sessions, outcome \in IngestOutcomes :
       IngestWith(sessionId, outcome) =>
         LET email == sessions'[sessionId].emails[tasks[sessionId].i]
         IN  /\ email.ingestStatus = PromisedStatus(outcome)
             /\ email.ingestError = PromisedError(outcome)
             /\ PromisedStatus(outcome) = "success" =>
                  sessions'[sessionId].totalIngested =
                    sessions[sessionId].totalIngested + 1]_vars

\* C5: when a sync session is 'completed', every email of its list has
\* ingestStatus 'success' or 'failed'; none is left 'pending' or 'sending'.
C5_CompletedMeansAllAttempted ==
  \A sessionId \in SyncSessions :
    sessions[sessionId].status = "completed" =>
      \A k \in 1..Len(sessions[sessionId].emails) :
        sessions[sessionId].emails[k].ingestStatus \in {"success", "failed"}

\* the exceptions processSync can meet once the ingest loop has finished
ThrownAfterIngestLoop == {"database error", "TypeError"}

\* C6: a sync session is 'failed' only through an exception thrown before the
\* ingest loop finished; a task that got through the ingest loop leaves its
\* session 'completed'.
C6_FailedOnlyBeforeIngestLoopEnd ==
  \A sessionId \in SyncSessions :
    /\ sessions[sessionId].status = "failed" =>
         tasks[sessionId].err \notin ThrownAfterIngestLoop
    /\ (/\ tasks[sessionId].pc \in {"done", "failed"}
        /\ tasks[sessionId].err \in ThrownAfterIngestLoop \cup {None})
         => sessions[sessionId].status = "completed"

\* C7: every session created by a real POST /api/sync eventually has status
\* 'completed' or 'failed', when every I/O call of its task returns or throws.
C7_EventuallyTerminal ==
  \A sessionId \in 1..MaxSweepSessions :
    (sessionId \in DOMAIN tasks /\ tasks[sessionId].kind = "sync")
      ~> (hasSession(sessions, sessionId) /\ Terminal(sessions[sessionId].status))

\* C8: the polling client of every session handed out eventually receives a
\* terminal snapshot and stops polling.
C8_PollerEventuallyStops ==
  \A sessionId \in 1..MaxSweepSessions :
    (sessionId \in polling) ~> (sessionId \notin polling)

\* C9: a POST /api/sync with dryRun = true, whatever its outcome, creates no
\* session, issues no ingest POST, writes neither lastSyncAt nor
\* lastManualSyncAt and appends no sync_history row.
C9_DryRunTouchesNothing ==
  [][\A user \in Users \cup {None}, credentialId \in CredIds \cup {None},
        lookbackOk \in BOOLEAN, fetchThrows \in BOOLEAN :
       PostSync(user, credentialId, lookbackOk, TRUE, fetchThrows, MaxSessions) =>
         UNCHANGED <<sessions, tasks, creds, syncHistory, ingestCalls>>]_vars

\* a dry run answered 200 while the store holds the session of a real sync
C9_Witness ==
  /\ resp.dryRun
  /\ resp.status = 200
  /\ 0 \in imapConnects
  /\ DOMAIN sessions # {}

\* a well-formed real sync request of the credential's owner, less than 24
\* hours after the credential's last manual sync
WithinRateLimitWindow(user, credentialId) ==
  /\ env.ENCRYPTION_KEY
  /\ CredentialFound(user, credentialId)
  /\ creds[credentialId].lastManualSyncAt # Null
  /\ now - creds[credentialId].lastManualSyncAt < RATE_LIMIT_HOURS
  /\ PostSync(user, credentialId, TRUE, FALSE, FALSE, MaxSessions)

\* the rejection: 429 with rateLimitedUntil = lastManualSyncAt + 24h, no
\* session created, no IMAP connection opened
RejectedUntil(credentialId) ==
  /\ resp'.status = 429
  /\ resp'.rateLimitedUntil = creds[credentialId].lastManualSyncAt + RATE_LIMIT_HOURS
  /\ UNCHANGED <<sessions, tasks, imapConnects>>

AcceptedSyncs(credentialId) ==
  {sessionId \in DOMAIN tasks :
     tasks[sessionId].kind = "sync" /\ tasks[sessionId].cred = credentialId}

\* C11: in production, for one credential at most one real sync is accepted in
\* any 24-hour window (here: the window that starts with the run, while it is
\* less than 24 hours old), also while background syncs are still running.
C11_OneSyncPer24h ==
  (~env.IS_DEV /\ now - RATE_LIMIT_HOURS < RATE_LIMIT_HOURS) =>
    \A credentialId \in CredIds : Cardinality(AcceptedSyncs(credentialId)) <= 1

\* C12: GET /api/sync-status answers with a session snapshot only to the
\* authenticated owner of the session; the answer to any other caller holds
\* no field of the session.
C12_SnapshotOnlyToOwner ==
  (resp.route = "sync-status" /\ resp.body # ErrorBody(resp.status)) =>
    /\ resp.caller # None
    /\ hasSession(sessions, resp.sessionId)
    /\ sessions[resp.sessionId].userId = resp.caller

\* a signed-in user who is not the owner asked for a session that holds an
\* email and was refused
C12_Witness ==
  /\ resp.route = "sync-status"
  /\ resp.status = 403
  /\ resp.body = ErrorBody(403)
  /\ Len(sessions[resp.sessionId].emails) > 0

\* C13: when the search or fetch of one sender throws, the session marks that
\* sender completed, keeps its status and its emails, and the task goes on
\* with the next sender, or leaves the loop after the last one; it is not
\* aborted.
C13_SenderErrorIsLocal ==
  [][\A sessionId \in DOMAIN sessions :
       SearchWith(sessionId, SearchResults, TRUE, <<>>) =>
         LET sender == tasks[sessionId].sender
         IN  /\ SeqIncludes(sessions'[sessionId].sendersCompleted, sender)
             /\ sessions'[sessionId].status = sessions[sessionId].status
             /\ sessions'[sessionId].emails = sessions[sessionId].emails
             /\ tasks'[sessionId].err = None
             /\ IF sender < NumSenders
                THEN /\ tasks'[sessionId].pc = "search"
                     /\ tasks'[sessionId].sender = sender + 1
                     /\ sessions'[sessionId].currentSender = sender + 1
                ELSE tasks'[sessionId].pc = "logout"]_vars

\* the search of the first sender threw, and the sync is in its ingest phase
\* with an email of the second sender
C13_Witness ==
  \E sessionId \in SyncSessions :
    /\ tasks[sessionId].searchErrors = {1}
    /\ sessions[sessionId].status = "ingesting"
    /\ tasks[sessionId].pc = "ingest"
    /\ sessions[sessionId].sendersCompleted = <<1, 2>>
    /\ Len(sessions[sessionId].emails) = 1

\* the errors of connecting, authenticating and selecting INBOX
ConnectPhaseErrors == {"connect failed", "select failed"}

\* C14: a sync whose connect, authentication or SELECT failed is over: its
\* session is 'failed' with connectionState 'error' and connectionError the
\* error message, its task has stopped and never entered the ingest loop.
C14_ConnectionErrorAborts ==
  \A sessionId \in SyncSessions :
    tasks[sessionId].err \in ConnectPhaseErrors =>
      /\ sessions[sessionId].status = "failed"
      /\ sessions[sessionId].connectionState = "error"
      /\ sessions[sessionId].connectionError = tasks[sessionId].err
      /\ sessions[sessionId].error = tasks[sessionId].err
      /\ tasks[sessionId].pc = "failed"
      /\ tasks[sessionId].i = 0
      /\ tasks[sessionId].emails = <<>>

\* a sync whose SELECT of INBOX failed after a successful login
C14_Witness ==
  \E sessionId \in SyncSessions :
    /\ tasks[sessionId].err = "select failed"
    /\ sessions[sessionId].connectionError = "select failed"
    /\ sessions[sessionId].status = "failed"
    /\ sessionId \in imapConnects

\* the implementation waits for the greeting or for the answer to LOGIN
InConnectPhase == imap.pc \in {"greeting", "login"}

\* C15: a call that is in its connect / greeting / LOGIN exchange either gets
\* through it or settles (with the timed-out error when the server never
\* completes the exchange), for each of the three entry points.
C15_ConnectPhaseIsBounded ==
  \A entry \in ENTRY_POINTS :
    (imap.entry = entry /\ InConnectPhase) ~> (~InConnectPhase \/ imap.result # None)

\* the real sync sessions that have reached 'completed' or 'failed'
FinishedSyncs == {sessionId \in SyncSessions : Terminal(sessions[sessionId].status)}

\* C16: when a real sync session has reached 'completed' or 'failed', the
\* credential's lastSyncAt and lastManualSyncAt have been written and one
\* sync_history row has been appended for that sync (one row per finished
\* sync, no more and no fewer).
C16_FinishedSyncIsPersisted ==
  /\ \A sessionId \in FinishedSyncs :
       /\ creds[tasks[sessionId].cred].lastSyncAt # Null
       /\ creds[tasks[sessionId].cred].lastManualSyncAt # Null
  /\ FinishedSyncs # {} => Len(syncHistory) = Cardinality(FinishedSyncs)

\* C17: every email of a session list, and so every email POSTed to the
\* ingest endpoint, has a sender that isApprovedSender accepts.
C17_OnlyApprovedSenders ==
  \A sessionId \in DOMAIN sessions :
    \A k \in 1..Len(sessions[sessionId].emails) :
      isApprovedSender(sessions[sessionId].emails[k].from)

\* the tag under which an entry point sends its LOGOUT
LogoutTag(entry) == IF entry = "testConnection" THEN "A002" ELSE "A999"

LogoutSent ==
  \E k \in 1..Len(imap.sent) :
    /\ imap.sent[k] = LogoutTag(imap.entry)
    /\ \A j \in 1..(k - 1) : imap.sent[j] # imap.sent[k]

\* C18: in a run of testConnection, fetchSampleEmails or fetchTicketEmails
\* that has opened its connection, a LOGOUT has been sent by the time the
\* implementation has returned or thrown and by the time the caller's promise
\* has settled, on the success path and on every failure path.
C18_LogoutBeforeSettling ==
  (imap.entry # None /\ (imap.outcome # None \/ imap.result # None)) => LogoutSent

\* C19: what readUntilTag returns for a command is exactly the server's
\* response to that command, up to and including its tagged completion line:
\* it stops at no earlier line and leaves no line of the response unread.
C19_ReadsWholeResponse ==
  imap.response # <<>> => (imap.got = imap.response /\ imap.unread = <<>>)

\* C20: within one connection no two commands are sent under the same tag,
\* over LOGIN, SELECT, the SEARCH of each sender, the FETCH of each message
\* and LOGOUT.
C20_TagsAreUnique ==
  \A j, k \in 1..Len(imap.sent) : j # k => imap.sent[j] # imap.sent[k]

\* C21: no LOGIN is sent unless the greeting read from the server begins with
\* '* OK'; a greeting that does not ends the operation with an error, on
\* every entry point.
C21_NoLoginWithoutOkGreeting ==
  [][ImapGreeting(<<"*", "BYE">>) =>
       (imap'.sent = <<>> /\ imap'.outcome # None /\ imap'.result # "success")]_vars

C23_NoEmailWithoutFromOrSubject ==
  (/\ call.fn \in {"EnvelopeEmail", "fetchEmail"}
   /\ (call.msg.fromAddress = <<>> \/ call.msg.subject = ""))
    => call.result = <<>>

\* C24: in every revision isApprovedSender('n <a>') equals
\* isApprovedSender(a), and the result for a does not change when letters of
\* a are changed to upper case.
C24_NameAndCaseDoNotMatter ==
  call.fn = "isApprovedSender" =>
    call.result = isApprovedSenderBy(call.policy, call.base)

\* C25: under the domain-suffix policy an address at the allow-listed domain
\* or at a subdomain of it is approved, and an address at a different domain
\* is not.
C25_SuffixPolicy ==
  (call.fn = "isApprovedSender" /\ call.policy = "suffix" /\ call.name = <<>>) =>
    (call.result <=> call.base \in {VENDOR, SUBDOMAIN})

\* C26: whenever a session's status is 'ingesting' or 'completed', its
\* currentSender is unset and its sendersCompleted list holds every
\* allow-listed sender exactly once, so that its length equals sendersTotal.
C26_FetchPhaseIsComplete ==
  \A sessionId \in DOMAIN sessions :
    sessions[sessionId].status \in {"ingesting", "completed"} =>
      LET done == sessions[sessionId].sendersCompleted
      IN  /\ sessions[sessionId].currentSender = 0
          /\ \A sender \in APPROVED_SENDERS :
               Cardinality({k \in 1..Len(done) : done[k] = sender}) = 1
          /\ Len(done) = sessions[sessionId].sendersTotal

\* a sync is in its ingest phase after a search that threw and one that found
\* an email
C26_Witness ==
  \E sessionId \in SyncSessions :
    /\ sessions[sessionId].status = "ingesting"
    /\ tasks[sessionId].searchErrors # {}
    /\ Len(sessions[sessionId].emails) > 0
    /\ Len(sessions[sessionId].sendersCompleted) = NumSenders

\* C27: within one session the ingest POSTs are issued one at a time and in
\* the order of the session's email list: when the POST of the next email is
\* started, the email before it in the list has had its ingestStatus set to
\* 'success' or 'failed'.
C27_IngestInListOrder ==
  [][\A sessionId \in DOMAIN sessions, outcome \in IngestOutcomes :
       (IngestWith(sessionId, outcome) /\ tasks[sessionId].i < Len(tasks[sessionId].emails)) =>
         LET i == tasks[sessionId].i
             recorded == IngestResult(sessions, sessionId, tasks[sessionId].emails[i], outcome)
         IN  /\ ingestCalls' = ingestCalls + 1
             /\ tasks'[sessionId].i = i + 1
             /\ tasks'[sessionId].emails[i + 1] = sessions[sessionId].emails[i + 1].messageId
             /\ recorded[sessionId].emails[i].ingestStatus \in {"success", "failed"}]_vars

\* C28: a failure of the LOGOUT after all senders have been processed does
\* not fail the sync: whichever way the logout ends, the session goes on to
\* its ingest phase with the emails fetched.
C28_LogoutFailureIsNotFatal ==
  [][\A sessionId \in SyncSessions :
       (Logout(sessionId) /\ sessionId \in DOMAIN sessions') =>
         /\ sessions'[sessionId].status = "ingesting"
         /\ sessions'[sessionId].emails = sessions[sessionId].emails
         /\ tasks'[sessionId].pc \in {"ingest", "persist"}]_vars

\* C29: within one session no two emails carry the same messageId.
C29_MessageIdsAreUnique ==
  \A sessionId \in DOMAIN sessions :
    \A j, k \in 1..Len(sessions[sessionId].emails) :
      j # k => sessions[sessionId].emails[j].messageId # sessions[sessionId].emails[k].messageId

\* C30: the sync_history row of a sync has status 'success' exactly when
\* emailsIngested equals emailsFound, 'partial' when the sync ran to its end
\* with fewer emails ingested than found, and 'error' when the sync threw:
\* every row fits its counts, and every sync that threw has an 'error' row.
C30_HistoryRowStatus ==
  /\ \A k \in 1..Len(syncHistory) :
       LET row == syncHistory[k]
       IN  /\ row.status = "success" <=> row.emailsIngested = row.emailsFound
           /\ row.status = "partial" => row.emailsIngested < row.emailsFound
  /\ \A sessionId \in SyncSessions :
       tasks[sessionId].pc = "failed" =>
         \E k \in 1..Len(syncHistory) :
           /\ syncHistory[k].credentialId = tasks[sessionId].cred
           /\ syncHistory[k].status = "error"

C32_SweepRemovesExactlyTheOld ==
  [][/\ \A sessionId \in DOMAIN sessions \ DOMAIN sessions' :
          sessions[sessionId].startedAt < now - SESSION_MAX_AGE_HOURS
     /\ DOMAIN tasks' # DOMAIN tasks =>
          \A sessionId \in DOMAIN sessions \cap DOMAIN sessions' :
            ~(sessions[sessionId].startedAt < now - SESSION_MAX_AGE_HOURS)]_vars

\* a request has swept the session of an earlier request and created its own
C32_Witness ==
  \E sessionId \in DOMAIN tasks :
    /\ sessionId \notin DOMAIN sessions
    /\ sessionId + 1 \in DOMAIN sessions
    /\ sessions[sessionId + 1].startedAt > RATE_LIMIT_HOURS + SESSION_MAX_AGE_HOURS

\* a request that fails one of the checks at the boundary of POST /api/sync
FailsAtBoundary(user, credentialId, lookbackOk, dryRun) ==
  \/ ~env.ENCRYPTION_KEY
  \/ user = None
  \/ credentialId = None
  \/ ~lookbackOk
  \/ ~CredentialFound(user, credentialId)
  \/ RateLimited(creds[credentialId], dryRun)

\* C33: a POST /api/sync rejected at the boundary (no ENCRYPTION_KEY, no
\* user, no credentialId, invalid lookbackDays, credential not the caller's,
\* rate limited) is answered with an error status and leaves the session
\* store and the database unchanged and opens no IMAP connection.
C33_RejectedRequestChangesNothing ==
  [][\A user \in Users \cup {None}, credentialId \in CredIds \cup {None},
        lookbackOk \in BOOLEAN, dryRun \in BOOLEAN, fetchThrows \in BOOLEAN :
       (/\ FailsAtBoundary(user, credentialId, lookbackOk, dryRun)
        /\ PostSync(user, credentialId, lookbackOk, dryRun, fetchThrows, MaxSessions)) =>
         /\ resp'.status \in {400, 401, 404, 429, 500}
         /\ resp'.sessionId = 0
         /\ UNCHANGED <<sessions, tasks, creds, syncHistory, ingestCalls, imapConnects>>]_vars

\* a request for a credential of another user was rejected while the store
\* holds a session
C33_Witness ==
  /\ resp.route = "sync"
  /\ resp.status = 404
  /\ DOMAIN sessions # {}

\* C34: a scheduled sync neither depends on nor writes lastManualSyncAt: it
\* can run for the account however recently a manual sync ran, and running it
\* does not change whether a manual sync of that account is rate limited.
C34_CronIgnoresManualLimit ==
  [][/\ (env.ENCRYPTION_KEY /\ Len(syncHistory) < MaxCronRuns) =>
          \A credentialId \in CredIds : ENABLED runSync(credentialId, FALSE, 0, 0)
     /\ \A credentialId \in CredIds, threw \in BOOLEAN, found \in 0..MaxPerSender,
           ingested \in 0..MaxPerSender :
          runSync(credentialId, threw, found, ingested) =>
            /\ creds'[credentialId].lastManualSyncAt = creds[credentialId].lastManualSyncAt
            /\ RateLimited(creds'[credentialId], FALSE)
                 <=> RateLimited(creds[credentialId], FALSE)
            /\ UNCHANGED <<sessions, tasks>>]_vars

\* in production a manual sync was accepted after the scheduled sync had run
\* for the account
C34_Witness ==
  /\ ~env.IS_DEV
  /\ creds["c1"].lastSyncAt # Null
  /\ creds["c1"].lastManualSyncAt = Null
  /\ \E sessionId \in SyncSessions : sessions[sessionId].startedAt > creds["c1"].lastSyncAt

\* C35: the step of POST /api/sync that answers 202 is the step that creates
\* the session: the answer carries the id of a session that is in the store,
\* owned by the caller and still 'fetching' (processSync has only been
\* started), so the owner's poll of that id is answered 200; and as long as
\* no further request has been answered the session stays in the store.
C35_AcceptedSyncHasItsSession ==
  [][/\ \A user \in Users, credentialId \in CredIds, lookbackOk \in BOOLEAN :
          (PostSync(user, credentialId, lookbackOk, FALSE, FALSE, MaxSessions)
             /\ resp'.status = 202) =>
            /\ ~hasSession(sessions, resp'.sessionId)
            /\ hasSession(sessions', resp'.sessionId)
            /\ sessions'[resp'.sessionId].userId = user
            /\ sessions'[resp'.sessionId].status = "fetching"
            /\ tasks'[resp'.sessionId].pc = "decrypt"
     /\ (resp.route = "sync" /\ resp.status = 202) =>
          /\ hasSession(sessions, resp.sessionId)
          /\ SyncStatus(resp.sessionId, sessions[resp.sessionId].userId) = 200]_vars

\* a sync has just been accepted and its task has not taken a step
C35_Witness ==
  /\ resp.route = "sync"
  /\ resp.status = 202
  /\ hasSession(sessions, resp.sessionId)
  /\ tasks[resp.sessionId].pc = "decrypt"
  /\ sessions[resp.sessionId].userId \in Users

\* C36: a step of the background task of one session (every store operation
\* it makes is addressed to its own sessionId) leaves every other session of
\* the store as it was, whatever the other tasks are doing.
C36_TaskStepsTouchOwnSessionOnly ==
  [][\A sessionId \in DOMAIN tasks :
       TaskStep(sessionId) =>
         /\ DOMAIN sessions' = DOMAIN sessions
         /\ \A other \in DOMAIN sessions \ {sessionId} : sessions'[other] = sessions[other]]_vars

\* two sessions in the store, both written by their running tasks
C36_Witness ==
  /\ {1, 2} \subseteq DOMAIN sessions
  /\ tasks[1].pc \notin {"decrypt", "done"}
  /\ tasks[2].pc \notin {"decrypt", "done"}
  /\ sessions[1].currentSender # 0
  /\ sessions[2].currentSender # 0
  /\ sessions[1].currentSender # sessions[2].currentSender

\* C37: while a session is in the store, no step lowers its totalFound, its
\* totalIngested or the number of its completed senders, removes an email from
\* its list or changes the message an entry of the list stands for; and a
\* session that has left the store never comes back.  The answers of
\* successive polls are snapshots of the session, so they are ordered the
\* same way.
C37_PolledTotalsNeverDecrease ==
  [][/\ \A sessionId \in DOMAIN sessions \cap DOMAIN sessions' :
          /\ sessions'[sessionId].totalFound >= sessions[sessionId].totalFound
          /\ sessions'[sessionId].totalIngested >= sessions[sessionId].totalIngested
          /\ Len(sessions'[sessionId].sendersCompleted)
               >= Len(sessions[sessionId].sendersCompleted)
          /\ Len(sessions'[sessionId].emails) >= Len(sessions[sessionId].emails)
          /\ \A k \in 1..Len(sessions[sessionId].emails) :
               /\ sessions'[sessionId].emails[k].messageId
                    = sessions[sessionId].emails[k].messageId
               /\ sessions'[sessionId].emails[k].from = sessions[sessionId].emails[k].from
     /\ \A sessionId \in DOMAIN tasks \ DOMAIN sessions : ~hasSession(sessions', sessionId)]_vars

\* a session polled while it lists two emails and has counted an ingest
C37_Witness ==
  \E sessionId \in SyncSessions :
    /\ sessionId \in polling
    /\ Len(sessions[sessionId].emails) >= 2
    /\ sessions[sessionId].totalIngested >= 1
    /\ Len(sessions[sessionId].sendersCompleted) >= 2

\* C38: no step removes from the store a session whose status is 'fetching'
\* or 'ingesting', so a task that has not finished finds its session.
C38_RunningSessionIsNeverSwept ==
  [][\A sessionId \in DOMAIN sessions :
       sessions[sessionId].status \in {"fetching", "ingesting"} =>
         hasSession(sessions', sessionId)]_vars

\* C39: the list fetchTicketEmails returns is the concatenation, in sender
\* order, of the lists it handed to onSenderComplete.
C39_ReturnedEqualsDelivered ==
  call.fn = "fetchTicketEmails" => call.result = call.delivered

TypeOK ==
  /\ now \in Nat
  /\ DOMAIN sessions \subseteq DOMAIN tasks
  /\ DOMAIN tasks = 1..Cardinality(DOMAIN tasks)

====
